---- MODULE Spec2Model ----
(***************************************************************************)
(* State-machine model of src/bot.py: a Telegram bot that collects a       *)
(* billing day and an amount, issues payment charges through the Atlas     *)
(* gateway and re-issues them from repeating jobs until a payment is seen. *)
(*                                                                         *)
(* Granularity.  Handlers are coroutines of one asyncio loop.  Updates are *)
(* processed one at a time (the Application is built without concurrent    *)
(* updates), job callbacks run as their own tasks and interleave with an   *)
(* update handler at its awaits.  requests.get/post block and             *)
(* verificar_pagamento never suspends, so the only suspension that lies    *)
(* between a gateway answer and the writes that record it is the await of  *)
(* send_or_replace_photo in gerar_cobranca (line 253) and the await of the *)
(* confirmation text in retry_cobranca_job (line 335).  The model cuts the *)
(* handlers exactly there.  Telegram sends are taken to succeed; a failed  *)
(* edit or delete is handled by the code and is modelled.                  *)
(***************************************************************************)
EXTENDS Integers, Sequences, FiniteSets, TLC

(* ------------------------------ bounds --------------------------------- *)
\* charges the gateway creates per subscriber
MaxCharges == 3

\* charges the gateway creates in all under SpecIso
MaxChargesIso == 2

(* ------------------------- program constants --------------------------- *)
DiaMin == 1
DiaMax == 31
ValorMax == 3000

\* amounts are kept in thousandths, so that texts with up to three decimals
\* are represented exactly
Scale == 10 * 10 * 10

(* ------------------------------ texts ---------------------------------- *)
\* a text is a sequence of one-character strings
Digits == {"0", "1", "2", "3", "4", "5", "6", "7", "8", "9"}

DigitVal(c) ==
  CASE c = "0" -> 0 [] c = "1" -> 1 [] c = "2" -> 2 [] c = "3" -> 3
    [] c = "4" -> 4 [] c = "5" -> 5 [] c = "6" -> 6 [] c = "7" -> 7
    [] c = "8" -> 8 [] c = "9" -> 9

RECURSIVE NumVal(_)
NumVal(s) ==
  IF s = <<>> THEN 0
  ELSE 10 * NumVal(SubSeq(s, 1, Len(s) - 1)) + DigitVal(s[Len(s)])

RECURSIVE LStrip(_)
LStrip(s) == IF s # <<>> /\ Head(s) = " " THEN LStrip(Tail(s)) ELSE s

RECURSIVE RStrip(_)
RStrip(s) ==
  IF s # <<>> /\ s[Len(s)] = " " THEN RStrip(SubSeq(s, 1, Len(s) - 1)) ELSE s

\* str.strip()
Strip(s) == RStrip(LStrip(s))

\* str.replace(",", ".")
ReplaceComma(s) == [i \in 1..Len(s) |-> IF s[i] = "," THEN "." ELSE s[i]]

HasSign(s) == s # <<>> /\ Head(s) \in {"-", "+"}
Unsigned(s) == IF HasSign(s) THEN Tail(s) ELSE s
IsNeg(s) == s # <<>> /\ Head(s) = "-"
AllDigits(s) == \A i \in 1..Len(s) : s[i] \in Digits

ValueError == [kind |-> "ValueError", num |-> 0, den |-> 1]

\* int(text.strip()): optional sign, then one or more digits
ParseInt(t) ==
  LET s == Strip(t)
      b == Unsigned(s)
  IN  IF b = <<>> \/ ~AllDigits(b) THEN ValueError
      ELSE [kind |-> "num",
            num |-> IF IsNeg(s) THEN 0 - NumVal(b) ELSE NumVal(b),
            den |-> 1]

DotAt(b) == {i \in 1..Len(b) : b[i] = "."}

RECURSIVE Pow10(_)
Pow10(k) == IF k = 0 THEN 1 ELSE 10 * Pow10(k - 1)

\* float(text.replace(",", ".")): surrounding blanks are ignored, an optional
\* sign, then "nan", "inf", or digits with at most one decimal point
ParseFloat(t) ==
  LET s == Strip(ReplaceComma(t))
      b == Unsigned(s)
      sg == IF IsNeg(s) THEN 0 - 1 ELSE 1
  IN  IF b = <<"n", "a", "n">> THEN [kind |-> "nan", num |-> 0, den |-> 1]
      ELSE IF b = <<"i", "n", "f">> THEN [kind |-> "inf", num |-> sg, den |-> 1]
      ELSE IF DotAt(b) = {} THEN
        IF b = <<>> \/ ~AllDigits(b) THEN ValueError
        ELSE [kind |-> "num", num |-> sg * NumVal(b), den |-> 1]
      ELSE IF Cardinality(DotAt(b)) > 1 THEN ValueError
      ELSE
        LET d == CHOOSE i \in DotAt(b) : TRUE
            ip == SubSeq(b, 1, d - 1)
            fp == SubSeq(b, d + 1, Len(b))
        IN  IF (ip = <<>> /\ fp = <<>>) \/ ~AllDigits(ip) \/ ~AllDigits(fp)
            THEN ValueError
            ELSE [kind |-> "num",
                  num |-> sg * (NumVal(ip) * Pow10(Len(fp)) + NumVal(fp)),
                  den |-> Pow10(Len(fp))]

\* variant: only the upper limit of the day is tested
DiaValido_sem_minimo(dia) == dia <= DiaMax

\* 1 <= dia <= 31 (line 358)
DiaValido(dia) == DiaMin <= dia /\ dia <= DiaMax

\* variant: only the upper limit of the amount is tested
ValorValido_sem_minimo(v) == v.kind = "num" /\ v.num <= ValorMax * v.den

\* 0 < valor <= 3000 (line 370); nan compares false, inf is above the limit
ValorValido(v) ==
  /\ v.kind = "num"
  /\ 0 < v.num
  /\ v.num <= ValorMax * v.den

\* the float kept in the profile, in thousandths
Milli(v) == (v.num * Scale) \div v.den

\* gerar_cobranca, line 212: round(float(valor), 2), of an amount in
\* thousandths.  A third decimal of 5 is rounded by the binary value of the
\* float, up or down; no amount of the model has one.
valor_formatado(m) ==
  LET r == m % 10 IN IF r < 5 THEN m - r ELSE m - r + 10


(* ------------------------------ inputs --------------------------------- *)
\* Telegram user ids of the subscribers
Users == {1, 2}

\* the subscriber who acts under Spec; the other one has no profile and
\* sends nothing
Ativos == {1}

\* day-of-month values datetime.now().day takes in the model
TodaySet == {15, 16}

\* texts a user types
Texts ==
  { <<"a">>, <<"0">>, <<"1", "5">> }

\* texts typed under SpecConv, which exercises the two input checks: blanks,
\* signs, leading zeros, decimal commas and points, the limits and their
\* neighbours, and texts that are no numbers
TextsConv ==
  { <<>>, <<"a">>, <<"n", "a", "n">>, <<"i", "n", "f">>,
    <<"0">>, <<"-", "1">>, <<"1">>, <<" ", "7", " ">>, <<"0", "7">>,
    <<"1", "5">>, <<"3", "1">>, <<"3", "2">>,
    <<"1", ",", "5">>, <<"0", ",", "0", "0", "1">>,
    <<"1", ",", "0", ".", "5">>,
    <<"3", "0", "0", "0">>, <<"3", "0", "0", "0", ",", "0", "1">> }

\* int(...) and float(...) of every text of the model, computed once
IntDe == [t \in Texts \cup TextsConv |-> ParseInt(t)]
FloatDe == [t \in Texts \cup TextsConv |-> ParseFloat(t)]

\* answers of the gateway to a create-charge request (lines 227-244):
\* a non-success HTTP status, requests raising, a 2xx answer lacking id,
\* qrCode or qrCodeImage, a 2xx answer whose image build_banner cannot
\* decode, and a complete answer
CreateOutcomes == {"http_error", "exception", "missing_field", "bad_image", "ok"}

\* a create-charge answer together with whether Telegram accepts the edit of
\* the previous message into the banner (only a complete answer gets there)
EmitOutcomes ==
  { [c |-> c, e |-> e] : c \in CreateOutcomes, e \in BOOLEAN } \
    { [c |-> c, e |-> TRUE] : c \in CreateOutcomes \ {"ok"} }

\* answers of the gateway to a status lookup (lines 195-202)
StatusOutcomes == {"http_error", "exception", "ok"}

\* profiles usuarios.json may hold when the process starts
NoCliente == [existe |-> FALSE, dia_pagamento |-> 0, valor |-> 0, ativo |-> FALSE]

StoredClientes ==
  { NoCliente,
    [existe |-> TRUE, dia_pagamento |-> 15, valor |-> 15 * Scale, ativo |-> TRUE] }

(* ------------------------------- state --------------------------------- *)
VARIABLES
  today,            \* datetime.now().day
  job_queue,        \* whether the application has a job queue (line 650)
  clientes,         \* ClienteManager.clientes
  user_states,      \* user_states: "none" stands for None or a missing key
  user_data,        \* context.user_data["dia"] per user; 0 when missing
  last_message_id,  \* last_message_id; 0 when missing
  last_msg_ids,     \* last_msg_ids; 0 when missing
  last_payment_id,  \* last_payment_id; 0 when missing
  paid_flags,       \* paid_flags; FALSE when missing
  retry_jobs,       \* scheduled jobs named retry_<uid>, per user
  cobranca_jobs,    \* scheduled jobs named cobranca_<uid>, per user
  recurring_jobs,   \* recurring_jobs: TRUE when the key is present
  gw_count,         \* charges the gateway created, per user
  gw_paid,          \* charges the gateway holds as settled, per user
  upd,              \* the update handler suspended inside gerar_cobranca
  tick,             \* the retry_<uid> callback suspended at an await
  ev                \* what the last step did (observation only)

vars ==
  << today, job_queue, clientes, user_states, user_data, last_message_id, last_msg_ids,
     last_payment_id, paid_flags, retry_jobs, cobranca_jobs, recurring_jobs,
     gw_count, gw_paid, upd, tick, ev >>

NoUpd == [user |-> 0, pid |-> 0]
NoTick == [pc |-> "idle", pid |-> 0, alive |-> TRUE]

\* op: the handler that ran; create, lookup: the answers it got from the
\* gateway's create-charge and status operations ("none" when it did not
\* call); msg: the last message it sent ("" when none); pid: the payment id it
\* verified, presented or recorded (0 when none); amount: the "amount" of the
\* create-charge request it made (0 when it made none)
EvCobra(op, u, create, lookup, msg, pid, amount) ==
  [op |-> op, user |-> u, create |-> create, lookup |-> lookup,
   msg |-> msg, pid |-> pid, amount |-> amount]

Ev(op, u, create, lookup, msg, pid) ==
  EvCobra(op, u, create, lookup, msg, pid, 0)

Init ==
  /\ today \in TodaySet
  /\ job_queue \in BOOLEAN
  /\ clientes \in [Users -> StoredClientes]
  /\ \A u \in Users \ Ativos : clientes[u] = NoCliente
  /\ user_states = [u \in Users |-> "none"]
  /\ user_data = [u \in Users |-> 0]
  /\ last_message_id = [u \in Users |-> 0]
  /\ last_msg_ids = [u \in Users |-> 0]
  /\ last_payment_id = [u \in Users |-> 0]
  /\ paid_flags = [u \in Users |-> FALSE]
  /\ retry_jobs = [u \in Users |-> 0]
  /\ cobranca_jobs = [u \in Users |-> 0]
  /\ recurring_jobs = [u \in Users |-> FALSE]
  /\ gw_count = [u \in Users |-> 0]
  /\ gw_paid = [u \in Users |-> {}]
  /\ upd = NoUpd
  /\ tick = [u \in Users |-> NoTick]
  /\ ev = Ev("init", 0, "none", "none", "", 0)

(* --------------------------- message ids ------------------------------- *)
\* Telegram gives every sent message a new id; ids are only compared, so the
\* model takes the least id that no tracker holds
MsgIds == {1, 2, 3}
FreshMsg(a, b) == CHOOSE m \in MsgIds \ {a, b} : \A n \in MsgIds \ {a, b} : m <= n

\* send_or_replace_text: the new value of last_message_id[chat_id]
send_or_replace_text(lm, other) == FreshMsg(lm, other)

\* send_or_replace_photo: an edit in place keeps the id (the early return of
\* line 303), otherwise the old message is deleted and a photo is sent
send_or_replace_photo(lm, other, editOk) ==
  IF lm # 0 /\ editOk THEN lm ELSE FreshMsg(lm, other)

\* _delete_previous_and_send_text: the new value of last_msg_ids[chat_id]
delete_previous_and_send_text(lms, other) == FreshMsg(lms, other)

(* ------------------------------ gateway -------------------------------- *)
\* verificar_pagamento: the dict it returns
verificar_pagamento(u, pid, sout) ==
  IF sout = "ok"
  THEN [success |-> TRUE, paid |-> pid \in gw_paid[u]]
  ELSE [success |-> FALSE, paid |-> FALSE]

\* variant: any answered lookup counts as a payment
Pago_so_success(res) == res.success

\* res.get("success") and res.get("paid")
Pago(res) == res.success /\ res.paid

\* what the gateway answered to a status lookup, for the record of the step
Resposta(u, pid, sout) ==
  IF sout # "ok" THEN sout ELSE IF pid \in gw_paid[u] THEN "PAID" ELSE "PENDING"

\* gerar_cobranca up to and including the await that presents the result
\* (lines 212-253, and the two failure returns and the except clause): the
\* payment id it goes on with (0 when it returns None), the message it sent
\* and the new last_message_id
gerar_cobranca_emitir(u, cout, editOk, lm) ==
  IF cout = "ok"
  THEN [pid |-> gw_count[u] + 1, msg |-> "banner",
        lm |-> send_or_replace_photo(lm, last_msg_ids[u], editOk)]
  ELSE [pid |-> 0,
        msg |-> CASE cout = "http_error" -> "erro_gerar"
                  [] cout = "missing_field" -> "resposta_invalida"
                  [] OTHER -> "erro_interno",
        lm |-> send_or_replace_text(lm, last_msg_ids[u])]


\* gerar_cobranca, line 262: without a job queue context.job_queue is None
\* and get_jobs_by_name raises AttributeError, which the except clause of
\* line 274 turns into the failure text and a None result
registrar_levanta(schedule_retries) == schedule_retries /\ ~job_queue

\* variant: the active charge is kept in one place for all users
gerar_cobranca_registrar_global(u, pid, schedule_retries) ==
  /\ last_payment_id' = [x \in Users |-> pid]
  /\ paid_flags' = [paid_flags EXCEPT ![u] = FALSE]
  /\ IF schedule_retries /\ job_queue
     THEN /\ retry_jobs' = [retry_jobs EXCEPT ![u] = 1]
          /\ tick' = [tick EXCEPT ![u].alive = (tick[u].pc = "idle")]
     ELSE UNCHANGED << retry_jobs, tick >>

\* gerar_cobranca after that await (lines 255-272): the charge is recorded
\* and, with schedule_retries, every job named retry_<uid> is removed and one
\* is scheduled; a callback of a removed job that is still suspended keeps
\* running but its job is gone
gerar_cobranca_registrar(u, pid, schedule_retries) ==
  /\ last_payment_id' = [last_payment_id EXCEPT ![u] = pid]
  /\ paid_flags' = [paid_flags EXCEPT ![u] = FALSE]
  /\ IF schedule_retries /\ job_queue
     THEN /\ retry_jobs' = [retry_jobs EXCEPT ![u] = 1]
          /\ tick' = [tick EXCEPT ![u].alive = (tick[u].pc = "idle")]
     ELSE UNCHANGED << retry_jobs, tick >>

(* --------------------------- conversation ------------------------------ *)
conv_state == << user_states, user_data, clientes >>
charge_state == << last_payment_id, paid_flags, gw_count >>
timer_state == << retry_jobs, cobranca_jobs, recurring_jobs, tick >>

\* variant: start leaves a conversation that waits for the amount where it is
start_mantem_amount(u) ==
  /\ upd = NoUpd
  /\ user_states' = IF user_states[u] = "amount" THEN user_states
                    ELSE [user_states EXCEPT ![u] = "day"]
  /\ last_message_id' =
       [last_message_id EXCEPT ![u] = send_or_replace_text(@, last_msg_ids[u])]
  /\ ev' = Ev("start", u, "none", "none", "bem_vindo", 0)
  /\ UNCHANGED << today, job_queue, clientes, user_data, last_msg_ids, charge_state,
                  timer_state, gw_paid, upd >>

\* start (lines 349-353)
start(u) ==
  /\ upd = NoUpd
  /\ user_states' = [user_states EXCEPT ![u] = "day"]
  /\ last_message_id' =
       [last_message_id EXCEPT ![u] = send_or_replace_text(@, last_msg_ids[u])]
  /\ ev' = Ev("start", u, "none", "none", "bem_vindo", 0)
  /\ UNCHANGED << today, job_queue, clientes, user_data, last_msg_ids, charge_state,
                  timer_state, gw_paid, upd >>

\* receber_dia (lines 355-365), reached from handle_text in state "day"
receber_dia(u, t) ==
  LET dia == IntDe[t]
      aceito == dia.kind = "num" /\ DiaValido(dia.num)
  IN
  /\ upd = NoUpd
  /\ user_states[u] = "day"
  /\ user_data' = IF aceito THEN [user_data EXCEPT ![u] = dia.num] ELSE user_data
  /\ user_states' = IF aceito THEN [user_states EXCEPT ![u] = "amount"]
                    ELSE user_states
  /\ last_message_id' =
       [last_message_id EXCEPT ![u] = send_or_replace_text(@, last_msg_ids[u])]
  /\ ev' = Ev("receber_dia", u, "none", "none",
              IF dia.kind = "ValueError" THEN "apenas_numeros"
              ELSE IF aceito THEN "qual_valor" ELSE "dia_entre_1_e_31",
              0)
  /\ UNCHANGED << today, job_queue, clientes, last_msg_ids, charge_state, timer_state,
                  gw_paid, upd >>

\* receber_valor (lines 367-391), reached from handle_text in state "amount";
\* when today is the billing day it runs gerar_cobranca up to the await that
\* presents the banner and is suspended there
receber_valor(u, t, o) ==
  LET valor == FloatDe[t]
      aceito == ValorValido(valor)
      dia == user_data[u]
      hoje == aceito /\ today = dia
      cout == o.c
      editOk == o.e
      lm1 == send_or_replace_text(last_message_id[u], last_msg_ids[u])
      lm2 == send_or_replace_text(lm1, last_msg_ids[u])
      g == gerar_cobranca_emitir(u, cout, editOk, lm2)
  IN
  /\ upd = NoUpd
  /\ user_states[u] = "amount"
  /\ hoje /\ cout = "ok" => gw_count[u] < MaxCharges
  /\ clientes' =
       IF aceito
       THEN [clientes EXCEPT ![u] =
               [existe |-> TRUE, dia_pagamento |-> dia, valor |-> Milli(valor),
                ativo |-> TRUE]]
       ELSE clientes
  /\ user_states' = IF aceito THEN [user_states EXCEPT ![u] = "none"]
                    ELSE user_states
  /\ last_message_id' =
       [last_message_id EXCEPT ![u] = IF hoje THEN g.lm ELSE lm1]
  /\ gw_count' = IF hoje /\ g.pid # 0 THEN [gw_count EXCEPT ![u] = g.pid]
                 ELSE gw_count
  /\ upd' = IF hoje /\ g.pid # 0 THEN [user |-> u, pid |-> g.pid] ELSE NoUpd
  /\ ev' = EvCobra("receber_valor", u, IF hoje THEN cout ELSE "none", "none",
                   IF hoje THEN g.msg
                   ELSE IF aceito THEN "configurado"
                   ELSE IF valor.kind = "ValueError" THEN "apenas_numeros"
                   ELSE "valor_invalido",
                   IF hoje THEN g.pid ELSE 0,
                   IF hoje THEN valor_formatado(Milli(valor)) ELSE 0)
  /\ UNCHANGED << today, job_queue, user_data, last_msg_ids, last_payment_id, paid_flags,
                  timer_state, gw_paid >>

\* the rest of receber_valor: gerar_cobranca(..., schedule_retries=True)
\* resumes after the banner was presented (lines 255-272)
receber_valor_retoma ==
  /\ upd # NoUpd
  /\ gerar_cobranca_registrar(upd.user, upd.pid, TRUE)
  /\ last_message_id' =
       IF registrar_levanta(TRUE)
       THEN [last_message_id EXCEPT
               ![upd.user] = send_or_replace_text(@, last_msg_ids[upd.user])]
       ELSE last_message_id
  /\ upd' = NoUpd
  /\ ev' = Ev("receber_valor_retoma", upd.user, "none", "none",
              IF registrar_levanta(TRUE) THEN "erro_interno" ELSE "", upd.pid)
  /\ UNCHANGED << today, job_queue, conv_state, last_msg_ids, gw_count,
                  cobranca_jobs, recurring_jobs, gw_paid >>

\* variant: a text outside the conversation forgets the active charge
use_start_esquece(u) ==
  /\ upd = NoUpd
  /\ user_states[u] = "none"
  /\ last_message_id' =
       [last_message_id EXCEPT ![u] = send_or_replace_text(@, last_msg_ids[u])]
  /\ last_payment_id' = [last_payment_id EXCEPT ![u] = 0]
  /\ ev' = Ev("handle_text", u, "none", "none", "use_start", 0)
  /\ UNCHANGED << today, job_queue, conv_state, last_msg_ids, paid_flags, gw_count,
                  timer_state, gw_paid, upd >>

\* handle_text in any other state (lines 399-400)
use_start(u) ==
  /\ upd = NoUpd
  /\ user_states[u] = "none"
  /\ last_message_id' =
       [last_message_id EXCEPT ![u] = send_or_replace_text(@, last_msg_ids[u])]
  /\ ev' = Ev("handle_text", u, "none", "none", "use_start", 0)
  /\ UNCHANGED << today, job_queue, conv_state, last_msg_ids, charge_state, timer_state,
                  gw_paid, upd >>

\* handle_text (lines 393-400)
handle_text(u, t) ==
  \/ receber_dia(u, t)
  \/ \E o \in IF ValorValido(FloatDe[t]) /\ today = user_data[u]
              THEN EmitOutcomes ELSE {[c |-> "ok", e |-> FALSE]} :
       receber_valor(u, t, o)
  \/ use_start(u)


(* ------------------------------ callbacks ------------------------------ *)
\* variant: a verified payment id is written back as the active one
verificar_callback_reativa(u, pid, sout) ==
  LET resultado == verificar_pagamento(u, pid, sout)
      lms1 == delete_previous_and_send_text(last_msg_ids[u], last_message_id[u])
      lms2 == delete_previous_and_send_text(lms1, last_message_id[u])
  IN
  /\ upd = NoUpd
  /\ pid \in 1..gw_count[u]
  /\ last_msg_ids' = [last_msg_ids EXCEPT ![u] = lms2]
  /\ last_payment_id' = [last_payment_id EXCEPT ![u] = pid]
  /\ IF Pago(resultado) /\ recurring_jobs[u]
     THEN /\ recurring_jobs' = [recurring_jobs EXCEPT ![u] = FALSE]
          /\ cobranca_jobs' = [cobranca_jobs EXCEPT ![u] = @ - 1]
     ELSE UNCHANGED << recurring_jobs, cobranca_jobs >>
  /\ ev' = Ev("verificar_callback", u, "none", Resposta(u, pid, sout),
              IF Pago(resultado) THEN "confirmado" ELSE "nao_localizado",
              pid)
  /\ UNCHANGED << today, job_queue, conv_state, last_message_id, paid_flags, gw_count,
                  retry_jobs, tick, gw_paid, upd >>

\* verificar_callback as registered by main: the definition of lines 527-571
\* rebinds the name defined at lines 403-440.  pid is the payment id carried
\* by the pressed button, one of the banners this user was shown.
verificar_callback(u, pid, sout) ==
  LET resultado == verificar_pagamento(u, pid, sout)
      lms1 == delete_previous_and_send_text(last_msg_ids[u], last_message_id[u])
      lms2 == delete_previous_and_send_text(lms1, last_message_id[u])
  IN
  /\ upd = NoUpd
  /\ pid \in 1..gw_count[u]
  /\ last_msg_ids' = [last_msg_ids EXCEPT ![u] = lms2]
  /\ IF Pago(resultado) /\ recurring_jobs[u]
     THEN /\ recurring_jobs' = [recurring_jobs EXCEPT ![u] = FALSE]
          /\ cobranca_jobs' = [cobranca_jobs EXCEPT ![u] = @ - 1]
     ELSE UNCHANGED << recurring_jobs, cobranca_jobs >>
  /\ ev' = Ev("verificar_callback", u, "none", Resposta(u, pid, sout),
              IF Pago(resultado) THEN "confirmado" ELSE "nao_localizado",
              pid)
  /\ UNCHANGED << today, job_queue, conv_state, last_message_id, charge_state, retry_jobs,
                  tick, gw_paid, upd >>

\* variant: ClienteManager offers get_cliente, so its callers run through
ClienteManager_com_get_cliente == TRUE

\* ClienteManager (lines 104-140) defines load_data, save_data,
\* add_or_update, get and get_clientes_do_dia: it has no get_cliente
ClienteManager_has_get_cliente == FALSE

(* ------------------------------ commands ------------------------------ *)
\* status (lines 488-505).  Line 490 calls clientes_manager.get_cliente, which
\* raises AttributeError: nothing is sent and nothing below runs.  The lines
\* below are modelled as one step: the text for a user without profile, or
\* the profile.
status(u) ==
  /\ upd = NoUpd
  /\ IF ~ClienteManager_has_get_cliente
     THEN /\ ev' = Ev("status", u, "none", "none", "", 0)
          /\ UNCHANGED last_msg_ids
     ELSE /\ last_msg_ids' =
               [last_msg_ids EXCEPT
                  ![u] = delete_previous_and_send_text(@, last_message_id[u])]
          /\ ev' = Ev("status", u, "none", "none",
                      IF clientes[u].existe THEN "seu_cadastro"
                      ELSE "nao_configurado", 0)
  /\ UNCHANGED << today, job_queue, conv_state, last_message_id, charge_state,
                  timer_state, gw_paid, upd >>

\* pagar (lines 508-522).  Line 511 calls clientes_manager.get_cliente, which
\* raises AttributeError: nothing is sent, no charge is asked for.  The lines
\* below are modelled as one step: the text for a user without profile, or
\* the loading text and gerar_cobranca with cliente.get("cpf_cnpj"), which
\* is None, as schedule_retries.
pagar(u, o) ==
  LET lms == delete_previous_and_send_text(last_msg_ids[u], last_message_id[u])
      g == gerar_cobranca_emitir(u, o.c, o.e, last_message_id[u])
      cobra == clientes[u].existe
  IN
  /\ upd = NoUpd
  /\ IF ~ClienteManager_has_get_cliente
     THEN /\ ev' = Ev("pagar", u, "none", "none", "", 0)
          /\ UNCHANGED << last_message_id, last_msg_ids, charge_state >>
     ELSE /\ o.c = "ok" /\ cobra => gw_count[u] < MaxCharges
          /\ last_msg_ids' = [last_msg_ids EXCEPT ![u] = lms]
          /\ last_message_id' =
               IF cobra THEN [last_message_id EXCEPT ![u] = g.lm]
               ELSE last_message_id
          /\ gw_count' = IF cobra /\ g.pid # 0
                         THEN [gw_count EXCEPT ![u] = g.pid] ELSE gw_count
          /\ last_payment_id' = IF cobra /\ g.pid # 0
                                THEN [last_payment_id EXCEPT ![u] = g.pid]
                                ELSE last_payment_id
          /\ paid_flags' = IF cobra /\ g.pid # 0
                           THEN [paid_flags EXCEPT ![u] = FALSE]
                           ELSE paid_flags
          /\ ev' = EvCobra("pagar", u, IF cobra THEN o.c ELSE "none", "none",
                           IF cobra THEN g.msg ELSE "use_start_primeiro",
                           IF cobra THEN g.pid ELSE 0,
                           IF cobra THEN valor_formatado(clientes[u].valor)
                           ELSE 0)
  /\ UNCHANGED << today, job_queue, conv_state, timer_state, gw_paid, upd >>

(* -------------------------------- jobs --------------------------------- *)
\* retry_cobranca_job, line 317: not cliente
tick_sem_cliente(u) == ~clientes[u].existe

\* retry_cobranca_job, line 323: paid_flags.get(user_id)
tick_ja_pago(u) == paid_flags[u]

\* retry_cobranca_job, lines 328-330: the status lookup is made
tick_consulta(u) ==
  ~tick_sem_cliente(u) /\ ~tick_ja_pago(u) /\ last_payment_id[u] # 0

\* variant: a lookup that failed counts as a payment
tick_pago_ou_erro(u, sout) ==
  tick_consulta(u)
    /\ (sout # "ok" \/ Pago(verificar_pagamento(u, last_payment_id[u], sout)))

\* retry_cobranca_job, line 331: the lookup reports the charge as paid
tick_pago(u, sout) ==
  tick_consulta(u) /\ Pago(verificar_pagamento(u, last_payment_id[u], sout))

\* retry_cobranca_job, lines 339-346: a new charge is asked for
tick_cobra(u, sout) ==
  ~tick_sem_cliente(u) /\ ~tick_ja_pago(u) /\ ~tick_pago(u, sout)

\* retry_cobranca_job (lines 313-346) up to the await that precedes its last
\* writes: the callback of a scheduled job named retry_<uid>
retry_cobranca_job(u, sout, o) ==
  LET pago == tick_pago(u, sout)
      cobra == tick_cobra(u, sout)
      g == gerar_cobranca_emitir(u, o.c, o.e, last_message_id[u])
  IN
  /\ retry_jobs[u] > 0
  /\ tick[u].pc = "idle"
  /\ cobra /\ o.c = "ok" => gw_count[u] < MaxCharges
  /\ retry_jobs' = IF tick_sem_cliente(u) \/ tick_ja_pago(u)
                   THEN [retry_jobs EXCEPT ![u] = @ - 1]
                   ELSE retry_jobs
  /\ paid_flags' = IF pago THEN [paid_flags EXCEPT ![u] = TRUE] ELSE paid_flags
  /\ last_message_id' =
       IF pago
       THEN [last_message_id EXCEPT
               ![u] = send_or_replace_text(@, last_msg_ids[u])]
       ELSE IF cobra THEN [last_message_id EXCEPT ![u] = g.lm]
       ELSE last_message_id
  /\ gw_count' = IF cobra /\ g.pid # 0 THEN [gw_count EXCEPT ![u] = g.pid]
                 ELSE gw_count
  /\ tick' =
       IF pago THEN [tick EXCEPT ![u] = [pc |-> "remove", pid |-> 0, alive |-> TRUE]]
       ELSE IF cobra /\ g.pid # 0
       THEN [tick EXCEPT ![u] = [pc |-> "record", pid |-> g.pid, alive |-> TRUE]]
       ELSE tick
  /\ ev' = EvCobra("retry_cobranca_job", u,
                   IF cobra THEN o.c ELSE "none",
                   IF tick_consulta(u) THEN Resposta(u, last_payment_id[u], sout)
                   ELSE "none",
                   IF pago THEN "confirmado" ELSE IF cobra THEN g.msg ELSE "",
                   IF cobra THEN g.pid ELSE 0,
                   IF cobra THEN valor_formatado(clientes[u].valor) ELSE 0)
  /\ UNCHANGED << today, job_queue, conv_state, last_msg_ids, last_payment_id,
                  cobranca_jobs, recurring_jobs, gw_paid, upd >>

\* the rest of retry_cobranca_job: after the confirmation text the job removes
\* itself (line 336); after the banner gerar_cobranca records the charge
\* (lines 255-256, schedule_retries=False)
retry_cobranca_job_retoma(u) ==
  /\ tick[u].pc # "idle"
  /\ IF tick[u].pc = "remove"
     THEN /\ retry_jobs' = IF tick[u].alive
                           THEN [retry_jobs EXCEPT ![u] = @ - 1]
                           ELSE retry_jobs
          /\ tick' = [tick EXCEPT ![u] = NoTick]
          /\ UNCHANGED << last_payment_id, paid_flags >>
     ELSE /\ last_payment_id' = [last_payment_id EXCEPT ![u] = tick[u].pid]
          /\ paid_flags' = [paid_flags EXCEPT ![u] = FALSE]
          /\ tick' = [tick EXCEPT ![u] = NoTick]
          /\ UNCHANGED retry_jobs
  /\ ev' = Ev("retry_cobranca_job_retoma", u, "none", "none", "", tick[u].pid)
  /\ UNCHANGED << today, job_queue, conv_state, last_message_id, last_msg_ids, gw_count,
                  cobranca_jobs, recurring_jobs, gw_paid, upd >>

\* _job_cobrar_2h (lines 576-603): the callback of a scheduled job named
\* cobranca_<uid>.  Line 580 calls clientes_manager.get_cliente, which raises
\* AttributeError: the job queue logs the error and keeps the job scheduled,
\* and nothing below line 580 runs.  The lines below are modelled as one step:
\* no profile or another day pops recurring_jobs and removes the job (lines
\* 581-599); otherwise a text is sent and gerar_cobranca is called with
\* cliente.get("cpf_cnpj"), which is None, as schedule_retries (lines 602-603).
job_cobrar_2h(u, o) ==
  LET encerra == ~clientes[u].existe \/ today # clientes[u].dia_pagamento
      g == gerar_cobranca_emitir(u, o.c, o.e, last_message_id[u])
  IN
  /\ cobranca_jobs[u] > 0
  /\ IF ~ClienteManager_has_get_cliente
     THEN /\ ev' = Ev("_job_cobrar_2h", u, "none", "none", "", 0)
          /\ UNCHANGED << last_message_id, last_msg_ids, charge_state,
                          timer_state >>
     ELSE /\ o.c = "ok" /\ ~encerra => gw_count[u] < MaxCharges
          /\ IF encerra /\ recurring_jobs[u]
             THEN /\ recurring_jobs' = [recurring_jobs EXCEPT ![u] = FALSE]
                  /\ cobranca_jobs' = [cobranca_jobs EXCEPT ![u] = @ - 1]
             ELSE UNCHANGED << recurring_jobs, cobranca_jobs >>
          /\ last_msg_ids' =
               IF encerra THEN last_msg_ids
               ELSE [last_msg_ids EXCEPT
                       ![u] = delete_previous_and_send_text(@, last_message_id[u])]
          /\ last_message_id' =
               IF encerra THEN last_message_id
               ELSE [last_message_id EXCEPT ![u] = g.lm]
          /\ gw_count' = IF ~encerra /\ g.pid # 0
                         THEN [gw_count EXCEPT ![u] = g.pid] ELSE gw_count
          /\ last_payment_id' = IF ~encerra /\ g.pid # 0
                                THEN [last_payment_id EXCEPT ![u] = g.pid]
                                ELSE last_payment_id
          /\ paid_flags' = IF ~encerra /\ g.pid # 0
                           THEN [paid_flags EXCEPT ![u] = FALSE]
                           ELSE paid_flags
          /\ ev' = EvCobra("_job_cobrar_2h", u,
                           IF encerra THEN "none" ELSE o.c,
                           "none", IF encerra THEN "" ELSE g.msg,
                           IF encerra THEN 0 ELSE g.pid,
                           IF encerra THEN 0
                           ELSE valor_formatado(clientes[u].valor))
          /\ UNCHANGED << retry_jobs, tick >>
  /\ UNCHANGED << today, job_queue, conv_state, gw_paid, upd >>

\* get_clientes_do_dia (lines 136-140)
get_clientes_do_dia(dia) ==
  { u \in Users : /\ clientes[u].existe
                  /\ clientes[u].dia_pagamento = dia
                  /\ clientes[u].ativo }

\* preparar_cobrancas_do_dia (lines 606-627): the daily job, which main
\* schedules when there is a job queue (lines 650-651)
preparar_cobrancas_do_dia ==
  LET novos == { u \in get_clientes_do_dia(today) : ~recurring_jobs[u] }
  IN
  /\ job_queue
  /\ cobranca_jobs' = [u \in Users |-> IF u \in novos THEN cobranca_jobs[u] + 1
                                       ELSE cobranca_jobs[u]]
  /\ recurring_jobs' = [u \in Users |-> recurring_jobs[u] \/ u \in novos]
  /\ ev' = Ev("preparar_cobrancas_do_dia", 0, "none", "none", "", 0)
  /\ UNCHANGED << today, job_queue, conv_state, last_message_id, last_msg_ids,
                  charge_state, retry_jobs, tick, gw_paid, upd >>

(* ----------------------------- environment ----------------------------- *)
\* the user pays one of the charges shown to them
UserPays(u, pid) ==
  /\ pid \in (1..gw_count[u]) \ gw_paid[u]
  /\ gw_paid' = [gw_paid EXCEPT ![u] = @ \cup {pid}]
  /\ ev' = Ev("env", 0, "none", "none", "", 0)
  /\ UNCHANGED << today, job_queue, conv_state, last_message_id, last_msg_ids,
                  charge_state, timer_state, upd >>

\* midnight passes
NextDay ==
  /\ today' \in TodaySet \ {today}
  /\ ev' = Ev("env", 0, "none", "none", "", 0)
  /\ UNCHANGED << job_queue, conv_state, last_message_id, last_msg_ids, charge_state,
                  timer_state, gw_paid, upd >>

(* ---------------------------- specification ---------------------------- *)
\* the status answers a tick of retry_<uid> can get: none is asked for when
\* the callback returns before line 330
StatusChoices(u) == IF tick_consulta(u) THEN StatusOutcomes ELSE {"ok"}

\* the create-charge answers a tick of retry_<uid> can get
EmitChoices(u, sout) ==
  IF tick_cobra(u, sout) THEN EmitOutcomes ELSE {[c |-> "ok", e |-> FALSE]}

\* the create-charge answers a tick of cobranca_<uid> can get
EmitChoices2h(u) ==
  IF ClienteManager_has_get_cliente THEN EmitOutcomes
  ELSE {[c |-> "ok", e |-> FALSE]}

Next ==
  \/ \E u \in Ativos : start(u)
  \/ \E u \in Ativos, t \in Texts : handle_text(u, t)
  \/ receber_valor_retoma
  \/ \E u \in Ativos : \E pid \in 1..gw_count[u], sout \in StatusOutcomes :
       verificar_callback(u, pid, sout)
  \/ \E u \in Users : \E sout \in StatusChoices(u) :
       \E o \in EmitChoices(u, sout) : retry_cobranca_job(u, sout, o)
  \/ \E u \in Users : retry_cobranca_job_retoma(u)
  \/ \E u \in Users : \E o \in EmitChoices2h(u) : job_cobrar_2h(u, o)
  \/ preparar_cobrancas_do_dia
  \/ \E u \in Ativos : \E pid \in 1..gw_count[u] : UserPays(u, pid)
  \/ NextDay

Spec == Init /\ [][Next]_vars

\* the conversation alone, on one day, with the wide set of texts; the daily
\* sweep gives it timers to leave alone
NextConv ==
  \/ \E u \in Ativos : start(u)
  \/ \E u \in Ativos, t \in TextsConv : handle_text(u, t)
  \/ receber_valor_retoma
  \/ preparar_cobrancas_do_dia

SpecConv == Init /\ [][NextConv]_vars

\* the create-charge answers pagar can get
EmitChoicesPagar(u) ==
  IF ClienteManager_has_get_cliente /\ clientes[u].existe THEN EmitOutcomes
  ELSE {[c |-> "ok", e |-> FALSE]}

\* the commands main registers (lines 639-641) and the text handler, over two
\* days
NextCmd ==
  \/ \E u \in Ativos : start(u)
  \/ \E u \in Ativos : status(u)
  \/ \E u \in Ativos : \E o \in EmitChoicesPagar(u) : pagar(u, o)
  \/ \E u \in Ativos, t \in Texts : handle_text(u, t)
  \/ receber_valor_retoma
  \/ NextDay

SpecCmd == Init /\ [][NextCmd]_vars

\* two subscribers who both act, on one day of a deployment with a job
\* queue; each may have a profile stored, and each types one text
TextsIso == { <<"1", "5">> }

InitIso ==
  /\ today = 15
  /\ job_queue = TRUE
  /\ clientes \in [Users -> StoredClientes]
  /\ user_states = [u \in Users |-> "none"]
  /\ user_data = [u \in Users |-> 0]
  /\ last_message_id = [u \in Users |-> 0]
  /\ last_msg_ids = [u \in Users |-> 0]
  /\ last_payment_id = [u \in Users |-> 0]
  /\ paid_flags = [u \in Users |-> FALSE]
  /\ retry_jobs = [u \in Users |-> 0]
  /\ cobranca_jobs = [u \in Users |-> 0]
  /\ recurring_jobs = [u \in Users |-> FALSE]
  /\ gw_count = [u \in Users |-> 0]
  /\ gw_paid = [u \in Users |-> {}]
  /\ upd = NoUpd
  /\ tick = [u \in Users |-> NoTick]
  /\ ev = Ev("init", 0, "none", "none", "", 0)

\* charges the gateway creates for the two subscribers together
SomaCharges == gw_count[1] + gw_count[2]

\* the steps of the two subscribers: their messages and the jobs (the button
\* and the payments are left to Spec)
NextIso ==
  \/ \E u \in Users : start(u)
  \/ \E u \in Users, t \in TextsIso :
       handle_text(u, t) /\ SomaCharges' <= MaxChargesIso
  \/ receber_valor_retoma
  \/ \E u \in Users : \E sout \in StatusChoices(u) :
       \E o \in EmitChoices(u, sout) :
         retry_cobranca_job(u, sout, o) /\ SomaCharges' <= MaxChargesIso
  \/ \E u \in Users : retry_cobranca_job_retoma(u)
  \/ \E u \in Users : \E o \in EmitChoices2h(u) :
       job_cobrar_2h(u, o) /\ SomaCharges' <= MaxChargesIso
  \/ preparar_cobrancas_do_dia

SpecIso == InitIso /\ [][NextIso]_vars


(* ------------------------------- claims -------------------------------- *)
\* the callbacks of the scheduled jobs, with the resumption of a suspended one
TickOps == {"retry_cobranca_job", "retry_cobranca_job_retoma", "_job_cobrar_2h"}

\* the timers scheduled for a subscriber, of either name
Timers(u) == retry_jobs[u] + cobranca_jobs[u]

\* no handler of the subscriber is suspended at an await
Quieto(u) == upd.user # u /\ tick[u].pc = "idle"

C2_AsClaimed ==
  (ev.op = "verificar_callback" /\ ev.lookup = "PAID"
     /\ ev.pid = last_payment_id[ev.user])
    => (ev.msg = "confirmado" /\ Timers(ev.user) = 0)

\* C3 (as claimed): every subscriber has at most one scheduled timer.
C3_AsClaimed == \A u \in Users : Timers(u) <= 1

\* C4 (as claimed): while no handler of the subscriber is suspended, a true
\* paid_flag means no timer is scheduled; and a user check that saw PAID
\* leaves paid_flag true and no timer.
C4_AsClaimed ==
  /\ \A u \in Users : (Quieto(u) /\ paid_flags[u]) => Timers(u) = 0
  /\ (ev.op = "verificar_callback" /\ ev.lookup = "PAID")
       => (paid_flags[ev.user] /\ Timers(ev.user) = 0)

\* C5 (as claimed): the daily sweep schedules nothing for a subscriber whose
\* retry timer was armed at the end of onboarding.
C5_AsClaimed ==
  [][ev'.op = "preparar_cobrancas_do_dia"
       => \A u \in Users :
            retry_jobs[u] > 0 => cobranca_jobs'[u] = cobranca_jobs[u]]_vars

\* C6 (as claimed): when gerar_cobranca fails, that is the gateway's answer
\* to the create-charge request is not a complete success or the except
\* clause of line 274 is taken, the user gets a failure message and the
\* active charge id, paid_flag and the timers stay as they were.
C6_AsClaimed ==
  [][(ev'.create \notin {"none", "ok"} \/ ev'.msg = "erro_interno")
       => /\ ev'.msg \in {"erro_gerar", "resposta_invalida", "erro_interno"}
          /\ UNCHANGED << last_payment_id, paid_flags, retry_jobs,
                          cobranca_jobs, recurring_jobs >>]_vars

\* C7: a retry tick that issued a charge records its id as the active one, and
\* it differs from the id that was active before; verificar_callback never
\* writes the active charge id, whatever id it verifies and whatever the
\* gateway reports.
C7_StaleVerifyNeverReactivates ==
  [][\A u \in Users :
       /\ (ev'.op = "verificar_callback" /\ ev'.user = u)
            => last_payment_id'[u] = last_payment_id[u]
       /\ (ev'.op = "retry_cobranca_job_retoma" /\ ev'.user = u
             /\ tick[u].pc = "record")
            => /\ last_payment_id'[u] = tick[u].pid
               /\ last_payment_id'[u] # last_payment_id[u]]_vars

\* C7 witness: the charge of the second tick (3) is active, and the charge of
\* the first tick (2), paid meanwhile, was verified by the user
C7_Witness ==
  /\ ev.op = "verificar_callback"
  /\ ev.lookup = "PAID"
  /\ ev.pid = 2
  /\ last_payment_id[ev.user] = 3

\* C8 (as claimed): a user check that carries a payment id other than the
\* active one cancels no timer and does not set paid_flag.
C8_AsClaimed ==
  [][\A u \in Users :
       (ev'.op = "verificar_callback" /\ ev'.user = u
          /\ ev'.pid # last_payment_id[u])
         => /\ retry_jobs'[u] = retry_jobs[u]
            /\ cobranca_jobs'[u] = cobranca_jobs[u]
            /\ paid_flags'[u] = paid_flags[u]]_vars


\* the decimal numeral of n
RECURSIVE Numeral(_)
Numeral(n) ==
  LET d == CHOOSE c \in Digits : DigitVal(c) = n % 10
  IN  IF n < 10 THEN <<d>> ELSE Numeral(n \div 10) \o <<d>>

\* the ways of writing the integer n: blanks around it, a plus sign, a
\* leading zero
Escritas(n) ==
  { pre \o sg \o z \o Numeral(n) \o post :
      pre \in {<<>>, <<" ">>}, post \in {<<>>, <<" ">>},
      sg \in {<<>>, <<"+">>}, z \in {<<>>, <<"0">>} }

\* the integer of [1,31] that a text of TextsConv writes; 0 when it writes none
DiaEscrito ==
  [t \in TextsConv |->
     IF \E n \in 1..31 : t \in Escritas(n)
     THEN CHOOSE n \in 1..31 : t \in Escritas(n)
     ELSE 0]

\* C9: in state "day" a text that writes no integer of [1,31] is answered with
\* a re-prompt and leaves the conversation state, the day kept so far, the
\* profiles, the charges and the timers as they are; a text that writes one
\* stores it and moves to state "amount".
C9_DayInput ==
  [][ev'.op = "receber_dia" =>
      \A u \in Ativos, t \in TextsConv :
       receber_dia(u, t)
         => IF DiaEscrito[t] # 0
            THEN /\ user_states'[u] = "amount"
                 /\ user_data'[u] = DiaEscrito[t]
            ELSE /\ user_states'[u] = "day"
                 /\ ev'.msg \in {"apenas_numeros", "dia_entre_1_e_31"}
                 /\ UNCHANGED << user_data, clientes, last_payment_id,
                                 paid_flags, gw_count, retry_jobs,
                                 cobranca_jobs, recurring_jobs, upd, tick >>]_vars

\* C9 witness: an out-of-range day was rejected for a subscriber who has a
\* profile, an active charge and a timer
C9_Witness ==
  /\ ev.op = "receber_dia"
  /\ ev.msg = "dia_entre_1_e_31"
  /\ user_states[ev.user] = "day"
  /\ clientes[ev.user].existe
  /\ last_payment_id[ev.user] # 0
  /\ Timers(ev.user) > 0

\* the amounts, in thousandths, that the texts of TextsConv write when they
\* write a decimal of (0, 3000]; 0 for the other texts
ValorEscrito(t) ==
  CASE t = <<"1">> -> 1 * Scale
    [] t = <<" ", "7", " ">> -> 7 * Scale
    [] t = <<"0", "7">> -> 7 * Scale
    [] t = <<"1", "5">> -> 15 * Scale
    [] t = <<"3", "1">> -> 31 * Scale
    [] t = <<"3", "2">> -> 32 * Scale
    [] t = <<"1", ",", "5">> -> Scale + Scale \div 2
    [] t = <<"0", ",", "0", "0", "1">> -> 1
    [] t = <<"3", "0", "0", "0">> -> 3000 * Scale
    [] OTHER -> 0

\* C10: in state "amount" a text that writes no decimal of (0, 3000] is
\* rejected: the state stays "amount", no profile is written and the gateway
\* is not called; a text that writes one stores the profile with that amount
\* and the day kept; and every profile has its day in [1,31] and its amount
\* in (0, 3000].
C10_AmountInput ==
  /\ [](\A u \in Users :
          clientes[u].existe
            => /\ clientes[u].dia_pagamento \in 1..31
               /\ clientes[u].valor > 0
               /\ clientes[u].valor <= 3000 * Scale)
  /\ [][ev'.op = "receber_valor" =>
         \A u \in Ativos, t \in TextsConv, o \in EmitOutcomes :
          receber_valor(u, t, o)
            => IF ValorEscrito(t) # 0
               THEN /\ clientes'[u].existe
                    /\ clientes'[u].valor = ValorEscrito(t)
                    /\ clientes'[u].dia_pagamento = user_data[u]
               ELSE /\ user_states'[u] = "amount"
                    /\ ev'.msg \in {"apenas_numeros", "valor_invalido"}
                    /\ ev'.create = "none"
                    /\ UNCHANGED << clientes, gw_count, last_payment_id,
                                    paid_flags, upd >>]_vars

\* C10 witness: amount 0 was rejected
C10_Witness ==
  /\ ev.op = "receber_valor"
  /\ ev.msg = "valor_invalido"
  /\ user_states[ev.user] = "amount"
  /\ user_data[ev.user] = 31

\* the message ids the program tracks as a subscriber's last message, over
\* both of its trackers
Rastreadas(u) == {last_message_id[u], last_msg_ids[u]} \ {0}

\* C11 (as claimed): at most one message id is tracked as a subscriber's last
\* message, so that the message sent last is the one the next send replaces.
C11_AsClaimed == \A u \in Users : Cardinality(Rastreadas(u)) <= 1

\* C12 (as claimed): when receber_valor accepts an amount the profile holds
\* the day given before and that amount and the conversation is back in no
\* state; a create-charge request is made exactly when today is the billing
\* day, and it asks for exactly the amount of the profile; and when the
\* issuance went through, the retry timer is scheduled once the handler ends.
C12_AsClaimed ==
  /\ [][(ev'.op = "receber_valor"
           /\ ev'.msg \notin {"apenas_numeros", "valor_invalido"})
         => /\ clientes'[ev'.user].existe
            /\ clientes'[ev'.user].dia_pagamento = user_data[ev'.user]
            /\ clientes'[ev'.user].valor > 0
            /\ user_states'[ev'.user] = "none"
            /\ (ev'.create # "none") <=> (today = user_data[ev'.user])
            /\ ev'.create # "none"
                 => ev'.amount = clientes'[ev'.user].valor]_vars
  /\ [][ev'.op = "receber_valor_retoma"
         => retry_jobs'[ev'.user] = 1]_vars

\* C13 (as claimed): for a subscriber with a stored profile, pagar makes a
\* create-charge request for the stored amount and status sends the profile.
C13_AsClaimed ==
  /\ (ev.op = "pagar" /\ clientes[ev.user].existe)
       => (ev.create # "none"
             /\ ev.amount = valor_formatado(clientes[ev.user].valor))
  /\ (ev.op = "status" /\ clientes[ev.user].existe)
       => ev.msg = "seu_cadastro"

\* C14: a tick of retry_<uid> whose status lookup answers anything but PAID
\* (pending, a non-success HTTP answer, an exception) asks the gateway for a
\* new charge, confirms nothing, leaves paid_flag false and leaves its job
\* scheduled.
C14_NotPaidReissues ==
  [][\A u \in Users :
       (ev'.op = "retry_cobranca_job" /\ ev'.user = u
          /\ ev'.lookup \notin {"none", "PAID"})
         => /\ ev'.create # "none"
            /\ ev'.msg # "confirmado"
            /\ ~paid_flags'[u]
            /\ retry_jobs'[u] = retry_jobs[u]
            /\ retry_jobs'[u] > 0]_vars

\* C14 witness: the lookup raised, a new charge was issued and the job is
\* still scheduled
C14_Witness ==
  /\ ev.op = "retry_cobranca_job"
  /\ ev.lookup = "exception"
  /\ ev.create = "ok"
  /\ ev.pid = 2
  /\ retry_jobs[ev.user] = 1

\* C15 (as claimed): once the user's check has seen the gateway report the
\* active charge as paid, a tick of that subscriber is a no-op: the tick that
\* runs next asks the gateway for no new charge.
C15_AsClaimed ==
  [][(ev.op = "verificar_callback" /\ ev.lookup = "PAID"
        /\ ev.pid = last_payment_id[ev.user]
        /\ ev'.op \in TickOps /\ ev'.user = ev.user)
       => ev'.create = "none"]_vars

\* C16 (as claimed): a tick that starts on a day other than the subscriber's
\* billing day asks the gateway for no charge and removes its timer.
C16_AsClaimed ==
  [][\A u \in Users :
       (ev'.op \in {"retry_cobranca_job", "_job_cobrar_2h"} /\ ev'.user = u
          /\ clientes[u].existe /\ today # clientes[u].dia_pagamento)
         => /\ ev'.create = "none"
            /\ Timers(u)' < Timers(u)]_vars

\* C17 (as claimed): after the daily sweep every active subscriber whose
\* billing day is today has a timer and the others got none; and a tick of
\* that timer on the billing day asks the gateway for the charge of the cycle.
C17_AsClaimed ==
  /\ [][ev'.op = "preparar_cobrancas_do_dia"
         => \A u \in Users :
              IF u \in get_clientes_do_dia(today)
              THEN cobranca_jobs'[u] > 0
              ELSE cobranca_jobs'[u] = cobranca_jobs[u]]_vars
  /\ [][\A u \in Users :
         (ev'.op = "_job_cobrar_2h" /\ ev'.user = u
            /\ u \in get_clientes_do_dia(today) /\ last_payment_id[u] = 0)
           => ev'.create # "none"]_vars

\* C18 (as claimed): when a create-charge request made on the subscriber's
\* billing day fails, a timer of that subscriber is scheduled when the handler
\* is done, so that a later tick asks again.
C18_AsClaimed ==
  [][\A u \in Users :
       (ev'.user = u /\ ev'.create \notin {"none", "ok"}
          /\ today = clientes'[u].dia_pagamento)
         => Timers(u)' > 0]_vars

\* what the program holds for one subscriber
DoUsuario(u) ==
  << user_states[u], user_data[u], clientes[u], last_message_id[u],
     last_msg_ids[u], last_payment_id[u], paid_flags[u], retry_jobs[u],
     cobranca_jobs[u], recurring_jobs[u], gw_count[u], tick[u] >>

C20_AsClaimed ==
  /\ \A u \in Users : Quieto(u) => last_payment_id[u] = gw_count[u]
  /\ (ev.op \in {"receber_valor_retoma", "retry_cobranca_job_retoma"}
        /\ ev.pid # 0)
       => (last_payment_id[ev.user] = ev.pid /\ ~paid_flags[ev.user])

\* C21: start puts the conversation in state "day" whatever state it was in;
\* state "amount" is entered only by receber_dia accepting a day, which then
\* is the day held; the day held does not change while the conversation
\* stays in "amount"; and the profile written by receber_valor carries the
\* day held.  So the profile carries the day accepted after the last start.
C21_StartDiscardsPartial ==
  /\ [][ev'.op = "start" => user_states'[ev'.user] = "day"]_vars
  /\ [][\A u \in Users :
         (user_states'[u] = "amount" /\ user_states[u] # "amount")
           => /\ ev'.op = "receber_dia" /\ ev'.user = u
              /\ user_states[u] = "day"
              /\ \E t \in TextsConv :
                    receber_dia(u, t) /\ user_data'[u] = DiaEscrito[t]]_vars
  /\ [][\A u \in Users :
         (user_states[u] = "amount" /\ user_states'[u] = "amount")
           => user_data'[u] = user_data[u]]_vars
  /\ [][\A u \in Users :
         clientes'[u] # clientes[u]
           => /\ ev'.op = "receber_valor" /\ ev'.user = u
              /\ user_states[u] = "amount"
              /\ clientes'[u].dia_pagamento = user_data[u]]_vars

\* C21 witness: the day 31 of an abandoned run is still held when start has
\* run again, and a later run ended with a profile of day 7
C21_Witness ==
  /\ ev.op = "start"
  /\ user_states[ev.user] = "day"
  /\ user_data[ev.user] = 31
  /\ clientes[ev.user].existe
  /\ clientes[ev.user].dia_pagamento = 7

\* C22: start, a day input (accepted or rejected), a rejected amount input
\* and a text outside the conversation call the gateway for nothing and leave
\* the active charge id, paid_flag, the timers and the charges as they were.
C22_ConversationFrame ==
  [][(\/ ev'.op \in {"start", "receber_dia", "handle_text"}
      \/ /\ ev'.op = "receber_valor"
         /\ ev'.msg \in {"apenas_numeros", "valor_invalido"})
       => /\ ev'.create = "none"
          /\ ev'.lookup = "none"
          /\ UNCHANGED << last_payment_id, paid_flags, retry_jobs,
                          cobranca_jobs, recurring_jobs, gw_count, tick >>]_vars

\* C22 witness: an amount was rejected while the subscriber has an active
\* charge and a timer of each name
C22_Witness ==
  /\ ev.op = "receber_valor"
  /\ ev.msg = "valor_invalido"
  /\ last_payment_id[ev.user] = 1
  /\ retry_jobs[ev.user] = 1
  /\ cobranca_jobs[ev.user] = 1

\* C23: paid_flag of a subscriber becomes true only in a step of that
\* subscriber's retry tick whose status lookup, made for the subscriber's
\* recorded charge id, was answered with the settled status; an HTTP error,
\* an exception or another status never sets it.
C23_PaidOnlyOnSettled ==
  [][\A u \in Users :
       (paid_flags'[u] /\ ~paid_flags[u])
         => /\ ev'.op = "retry_cobranca_job"
            /\ ev'.user = u
            /\ ev'.lookup = "PAID"
            /\ last_payment_id[u] # 0
            /\ last_payment_id[u] \in gw_paid[u]]_vars

\* C23 witness: a retry tick got the settled status and set the flag
C23_Witness ==
  /\ ev.op = "retry_cobranca_job"
  /\ ev.lookup = "PAID"
  /\ paid_flags[ev.user]
  /\ last_payment_id[ev.user] \in gw_paid[ev.user]

====
